---- MODULE Spec2Model ----
(***************************************************************************)
(* restmailer: REST-fronted outbound mail submission.                      *)
(*                                                                         *)
(* The model follows src/src/http_handler.py (ingress, responses, signal   *)
(* handler), src/src/mailer.py (delivery engine), src/src/structures.py    *)
(* (RuntimeItem and its event log) and src/src/configuration.py (registry, *)
(* snapshotter loop, rt_save).                                             *)
(*                                                                         *)
(* Threads: one request thread per HTTP request (ThreadingHTTPServer), one *)
(* daemon worker per async job, the runtime-cleanup daemon (snapshotter)   *)
(* and the main thread, which runs the signal handler.                     *)
(*                                                                         *)
(* Environment: the outcome of every network call (MX resolution, connect, *)
(* EHLO, STARTTLS, send_message, quit) is a nondeterministic choice.  The  *)
(* wall clock int(time.time()) is read as a non-decreasing counter: every  *)
(* read returns some value not below the previous read.                    *)
(***************************************************************************)
EXTENDS Integers, Sequences, FiniteSets, TLC

\* ------------------------------------------------------------------ bounds
\* most parts in the data of a message
MaxParts == 2
\* longest Answer list of a DoH response
MaxAnswers == 2
\* number of jobs accepted over a run (guids 1..MaxJobs, numbered in insertion order)
MaxJobs == 2
\* largest value the wall clock reaches
MaxTime == 2

\* ------------------------------------------------- program constants
\* http.max_body default
MaxBody == 20971520
\* mail.def_mail_send_timeout default
DefMailSendTimeout == 30
\* the eviction ceiling of _cleanup_runtime, 50 * 1024**3 characters of JSON,
\* scaled to the size unit of DataLen
RuntimeCeiling == 8

VARIABLES
    conf,       \* Configuration: http.auth_tokens, http.runtime_file_path, mail.proxy, mail.dkim_key_path
    env,        \* what the outside world does in this run: MX answers, request bodies, clock range
    now,        \* the last value read from the wall clock
    runtime,    \* conf.runtime: guid -> RuntimeItem
    nextGuid,   \* number of guids handed out so far
    th,         \* per job: its request thread and its api_send_message frame
    snap,       \* the runtime-cleanup thread: position and locals of _cleanup_runtime
    file,       \* the snapshot file: content, open writers, author of the last write
    main,       \* the main thread: "serving", "saving" (inside shutdown_instance), "closed"
    response,   \* <<r>> while send_answer puts response r on the wire, <<>> otherwise
    hist        \* observation only: count of registry mutations and when the snapshotter looked

vars == <<conf, env, now, runtime, nextGuid, th, snap, file, main, response, hist>>

Guids == 1..MaxJobs

\* ------------------------------------------------------------ data model
\* structures.py: MailMessageBodyTextItem / MailMessageBodyFileItem
TextPart == [type |-> "text", text |-> "hi", subtype |-> "plain", charset |-> "utf-8"]
HtmlPart == [type |-> "text", text |-> "<p>hi</p>", subtype |-> "html", charset |-> "utf-8"]

AttachmentPart ==
    [type |-> "attachment", name |-> "a.txt", content_type |-> "text/plain", content_b64 |-> "aGk="]

\* MailMessage.using_def_send_timeout_if_not_set: a falsy value takes the default
using_def_send_timeout_if_not_set(send_timeout) ==
    IF send_timeout # 0 THEN send_timeout ELSE DefMailSendTimeout

\* structures.py: MailMessage after validation (guid assigned by do_POST)
MailMessage(guid, data, send_timeout) ==
    [guid |-> guid, address_to |-> "user@example.com", subject |-> "s",
     data |-> data, send_timeout |-> using_def_send_timeout_if_not_set(send_timeout)]

\* structures.py: RuntimeItemEvent; ts is read from the clock when the event is built
RuntimeItemEvent(ts, source, message) ==
    [ts |-> ts, source |-> source, message |-> message]

\* structures.py: RuntimeItem(message=...) with its field defaults
RuntimeItem(message, ts) ==
    [message |-> message, ts_added |-> ts, state |-> "sending", events |-> <<>>]

\* an event message: text, the MX host it names ("" when none), a number (0 when none)
Msg(text, host, n) == <<text, host, n>>

\* RuntimeItem.log with the new event put at the head of the list
logPrepend(item, ts, source, message) ==
    [item EXCEPT !.events = <<RuntimeItemEvent(ts, source, message)>> \o @]

\* RuntimeItem.log: append one event stamped with the current time
log(item, ts, source, message) ==
    [item EXCEPT !.events = Append(@, RuntimeItemEvent(ts, source, message))]

\* the assignment with a misspelt literal (assignments are not validated)
SetStateTypo(rt, g, s) == [rt EXCEPT ![g].state = IF s = "sended" THEN "sent" ELSE s]

\* conf.runtime[guid].state = s
SetState(rt, g, s) == [rt EXCEPT ![g].state = s]

\* pydantic model_dump(mode='json', exclude=...): exclude names fields of the
\* model being dumped (the top level); nested models are dumped whole
model_dump(item, exclude) ==
    [f \in (DOMAIN item) \ exclude |-> item[f]]

\* the keys of the registry in insertion order (guids are numbered in that order)
RECURSIVE KeysFrom(_, _)
KeysFrom(rt, k) ==
    IF k > MaxJobs THEN <<>>
    ELSE (IF k \in DOMAIN rt THEN <<k>> ELSE <<>>) \o KeysFrom(rt, k + 1)

keys(rt) == KeysFrom(rt, 1)

\* RuntimeHolder.model_dump_json: the whole registry, insertion order
model_dump_json(rt) ==
    [i \in 1..Len(keys(rt)) |-> <<keys(rt)[i], model_dump(rt[keys(rt)[i]], {})>>]

\* hashlib.sha256(rt.encode()).digest().hex(): the digest stands for the text it was
\* computed from (no collisions)
sha256(rt) == <<"sha256", rt>>

\* len(rt): the length of the JSON text, counted in units of one job header and one event
RECURSIVE DataLen(_)
DataLen(rt) ==
    IF rt = <<>> THEN 0
    ELSE 1 + Len(Head(rt)[2].events) + Len(Head(rt)[2].message.data) + DataLen(Tail(rt))

\* every occurrence of x goes
removeAll(s, x) == SelectSeq(s, LAMBDA y : y # x)

\* list.pop() in its place: the last element goes
pop(s, x) == SubSeq(s, 1, Len(s) - 1)

\* list.remove(x): drop the first occurrence of x
RECURSIVE remove(_, _)
remove(s, x) ==
    IF s = <<>> THEN <<>>
    ELSE IF Head(s) = x THEN Tail(s) ELSE <<Head(s)>> \o remove(Tail(s), x)

\* ------------------------------------------------------------- resolver
\* Strings the resolver takes apart are sequences of one-character strings.
\* str.strip('.'): leading and trailing dots are dropped
RECURSIVE lstrip(_)
lstrip(s) == IF s # <<>> /\ Head(s) = "." THEN lstrip(Tail(s)) ELSE s

RECURSIVE rstrip(_)
rstrip(s) ==
    IF s # <<>> /\ s[Len(s)] = "." THEN rstrip(SubSeq(s, 1, Len(s) - 1)) ELSE s

strip(s) == rstrip(lstrip(s))

\* str.split(' '): the pieces between single spaces
RECURSIVE split(_)
split(s) ==
    IF \E i \in 1..Len(s) : s[i] = " "
    THEN LET i == CHOOSE k \in 1..Len(s) : s[k] = " " /\ \A j \in 1..(k - 1) : s[j] # " "
         IN <<SubSeq(s, 1, i - 1)>> \o split(SubSeq(s, i + 1, Len(s)))
    ELSE <<s>>

DigitValue ==
    [c \in {"0", "1", "2", "3", "4", "5", "6", "7", "8", "9"} |->
        CASE c = "0" -> 0 [] c = "1" -> 1 [] c = "2" -> 2 [] c = "3" -> 3 [] c = "4" -> 4
          [] c = "5" -> 5 [] c = "6" -> 6 [] c = "7" -> 7 [] c = "8" -> 8 [] c = "9" -> 9]

\* int(x) raises ValueError unless x is a non-empty run of digits
IsInt(s) == s # <<>> /\ \A i \in 1..Len(s) : s[i] \in DOMAIN DigitValue

RECURSIVE int(_)
int(s) == IF s = <<>> THEN 0 ELSE 10 * int(SubSeq(s, 1, Len(s) - 1)) + DigitValue[s[Len(s)]]

\* the sort key of utils.py line 24
PreferenceKey(x) == int(split(x)[1])

\* sorted(datas, key=...): stable, ascending
RECURSIVE InsertByKey(_, _)
InsertByKey(sorted, x) ==
    IF sorted = <<>> THEN <<x>>
    ELSE IF PreferenceKey(Head(sorted)) <= PreferenceKey(x)
         THEN <<Head(sorted)>> \o InsertByKey(Tail(sorted), x)
         ELSE <<x>> \o sorted

RECURSIVE sorted(_)
sorted(datas) ==
    IF datas = <<>> THEN <<>>
    ELSE InsertByKey(sorted(SubSeq(datas, 1, Len(datas) - 1)), datas[Len(datas)])

\* a sequence of characters as one string
RECURSIVE str(_)
str(s) == IF s = <<>> THEN "" ELSE Head(s) \o str(Tail(s))

\* utils.py get_mx_server_address on the DoH response res; every exception
\* (HTTP or JSON error, no Answer key, ValueError of the sort key) gives []
get_mx_server_address(res) ==
    IF ~res.ok \/ res.Status # 0 \/ ~res.has_answer THEN <<>>
    ELSE LET mx    == SelectSeq(res.Answer, LAMBDA answer : answer.type = 15)
             datas == [i \in 1..Len(mx) |-> strip(mx[i].data)]
         IN IF \E i \in 1..Len(datas) : ~IsInt(split(datas[i])[1]) THEN <<>>
            ELSE LET ordered == sorted(datas)
                 IN [i \in 1..Len(ordered) |->
                       IF \E k \in 1..Len(ordered[i]) : ordered[i][k] = " "
                       THEN str(split(ordered[i])[2])
                       ELSE str(ordered[i])]

\* DoH responses: an MX record 'preference host.', an answer list, NXDOMAIN
MxData(preference, host) == preference \o <<" ">> \o host \o <<".">>

Mx1 == MxData(<<"1", "0">>, <<"m", "x", "1">>)

Mx2 == MxData(<<"2", "0">>, <<"m", "x", "2">>)

DohAnswer(datas) ==
    [ok |-> TRUE, Status |-> 0, has_answer |-> TRUE,
     Answer |-> [i \in 1..Len(datas) |-> [type |-> 15, data |-> datas[i]]]]

NxDomain == [ok |-> TRUE, Status |-> 3, has_answer |-> FALSE, Answer |-> <<>>]

\* ---------------------------------------------------------------- frames
\* the request thread of a job and the api_send_message call made for it
NoRequest ==
    [method |-> "", path |-> "", guid |-> 0, length |-> 0, authorization |-> "", valid |-> FALSE,
     data |-> <<>>, send_timeout |-> 0]

IdleThread ==
    [request |-> NoRequest, rq |-> "none", pc |-> "none", message |-> <<>>,
     doh |-> <<>>, mx_servers |-> <<>>, current_mx_server |-> "",
     message_sended |-> FALSE, try_again |-> FALSE,
     send_result |-> "none", conn |-> "none",
     accepted |-> FALSE, ret |-> "none"]

\* a step of the program is taken while no response is on the wire: a response is
\* observed alone, and the client's read of it is the next step
Live == response = <<>>

\* an exception leaves the frame: KeyError in the handler before the call, or an
\* exception out of api_send_message, which in /message/send ends the request
\* thread as well
Raised(f) ==
    IF f.rq = "inserted"
    THEN [f EXCEPT !.rq = "raised"]
    ELSE [f EXCEPT !.pc = "raised", !.rq = IF @ = "deliver" THEN "raised" ELSE @]

\* the values a read of int(time.time()) can return
ClockRead == now..env.max_time

\* the registry has been mutated: seen from the iteration of the snapshotter now
\* running (newer), from the one before it (older), and whether it fell between
\* the end of one serialization and the start of the next
Touch(h) ==
    [h EXCEPT !.newer = TRUE, !.older = TRUE, !.between = (@ \/ snap.pc # "serialize")]

Mutated == hist' = Touch(hist)

\* conf.runtime[guid].log(source, message), then the frame moves to `next`;
\* a guid that is no longer in the registry raises KeyError
LogStep(g, source, message, next) ==
    IF g \in DOMAIN runtime
    THEN \E t \in ClockRead :
            /\ now' = t
            /\ runtime' = [runtime EXCEPT ![g] = log(@, t, source, message)]
            /\ th' = [th EXCEPT ![g] = next]
            /\ Mutated
    ELSE /\ th' = [th EXCEPT ![g] = Raised(th[g])]
         /\ UNCHANGED <<now, runtime, hist>>

\* ---------------------------------------------------------------- ingress
\* validate_auth that lets every request through
validate_authOpen(authorization) == TRUE

\* HTTPLayer.validate_auth: no tokens configured lets everything through
validate_auth(authorization) ==
    IF conf.auth_tokens = {} THEN TRUE ELSE authorization \in conf.auth_tokens

\* the status do_POST answers with before it touches the registry, 0 when the
\* request passes: body cap, then routing, then auth, then MailMessage validation
PostIngress(req) ==
    IF req.length > conf.max_body THEN 400
    ELSE IF req.path # "/message/send" /\ req.path # "/message/async-send" THEN 404
    ELSE IF ~validate_auth(req.authorization) THEN 401
    ELSE IF ~req.valid THEN 400
    ELSE 0

\* the POST requests a client can send
PostRequests ==
    { [method |-> "POST", path |-> p, guid |-> 0, length |-> l, authorization |-> a, valid |-> TRUE,
       data |-> d, send_timeout |-> st] :
         p \in env.paths, l \in env.lengths, a \in env.tokens,
         d \in env.data, st \in env.timeouts }
    \cup
    { [method |-> "POST", path |-> p, guid |-> 0, length |-> MaxBody, authorization |-> a, valid |-> FALSE,
       data |-> <<>>, send_timeout |-> 0] :
         p \in env.paths, a \in env.tokens, v \in env.valid \ {TRUE} }

\* send_answer(status, body)
send_answer(req, status, body) ==
    response' = <<[method |-> req.method, path |-> req.path, status |-> status, body |-> body]>>

\* the client has read the response
ClientReceive ==
    /\ response # <<>>
    /\ response' = <<>>
    /\ UNCHANGED <<conf, env, now, runtime, nextGuid, th, snap, file, main, hist>>

\* do_POST up to and including the insertion into the registry (lines 120-132);
\* a rejected request is answered and nothing else happens
do_POST ==
    /\ Live /\ main = "serving"
    /\ \E req \in PostRequests :
        LET status == PostIngress(req) IN
        IF status # 0
        THEN /\ send_answer(req, status, "rejected")
             /\ UNCHANGED <<conf, env, now, runtime, nextGuid, th, snap, file, main, hist>>
        ELSE /\ nextGuid < env.jobs
             /\ LET g == nextGuid + 1 IN
                \E t \in ClockRead :
                  /\ now' = t
                  /\ nextGuid' = g
                  /\ runtime' = [k \in DOMAIN runtime \cup {g} |->
                                   IF k = g
                                   THEN RuntimeItem(MailMessage(g, req.data, req.send_timeout), t)
                                   ELSE runtime[k]]
                  /\ th' = [th EXCEPT ![g] = [IdleThread EXCEPT !.request = req, !.rq = "inserted"]]
                  /\ Mutated
             /\ UNCHANGED <<conf, env, snap, file, main, response>>

\* do_POST lines 134-155: the 'api received' event; then api_send_message is
\* called in the request thread (/message/send) or in a new daemon thread
PostReceived(g) ==
    /\ Live
    /\ th[g].rq = "inserted"
    /\ LogStep(g, "api", Msg("received", "", Len(th[g].request.data)),
               [th[g] EXCEPT !.rq = IF th[g].request.path = "/message/send"
                                    THEN "deliver" ELSE "spawned",
                             !.pc = "resolve"])
    /\ UNCHANGED <<conf, env, nextGuid, snap, file, main, response>>

\* do_POST lines 143-148: api_send_message has returned, answer 200 or 418
\* with the job's RuntimeItem
PostSendAnswer(g) ==
    /\ Live
    /\ th[g].rq = "deliver" /\ th[g].pc = "returned"
    /\ IF g \in DOMAIN runtime
       THEN /\ send_answer(th[g].request, IF th[g].ret = "True" THEN 200 ELSE 418,
                           model_dump(runtime[g], {"content_b64"}))
            /\ th' = [th EXCEPT ![g].rq = "done"]
       ELSE /\ th' = [th EXCEPT ![g].rq = "raised"]
            /\ UNCHANGED response
    /\ UNCHANGED <<conf, env, now, runtime, nextGuid, snap, file, main, hist>>

\* do_POST lines 157-161: the async answer, sent after the worker was started
PostAsyncAnswer(g) ==
    /\ Live
    /\ th[g].rq = "spawned"
    /\ IF g \in DOMAIN runtime
       THEN /\ send_answer(th[g].request, 200, model_dump(runtime[g], {"content_b64"}))
            /\ th' = [th EXCEPT ![g].rq = "done"]
       ELSE /\ th' = [th EXCEPT ![g].rq = "raised"]
            /\ UNCHANGED response
    /\ UNCHANGED <<conf, env, now, runtime, nextGuid, snap, file, main, hist>>

\* one answer written to the connection by send_answer
Answer(req, status, body) ==
    [method |-> req.method, path |-> req.path, status |-> status, body |-> body]

\* do_GET: GET /message/<guid> (lines 70-82); /docs with docs_enabled (lines
\* 84-110), whose branch has no return and runs on into the lines below it;
\* '/' (lines 113-115); anything else 404 (line 117)
do_GET ==
    /\ Live /\ main = "serving"
    /\ \E p \in env.get_paths, a \in env.tokens, g \in Guids :
        LET req == [NoRequest EXCEPT !.method = "GET", !.path = p,
                                     !.authorization = a, !.guid = g] IN
        IF p = "/message/"
        THEN IF ~validate_auth(a) THEN send_answer(req, 401, "Unauthorized")
             ELSE IF g \notin DOMAIN runtime THEN send_answer(req, 404, "not found")
             ELSE send_answer(req, 200, model_dump(runtime[g], {"content_b64"}))
        ELSE response' =
                (IF p = "/docs" /\ conf.docs_enabled
                 THEN <<Answer(req, 200, "docs")>> ELSE <<>>)
                \o (IF p = "/"
                    THEN <<Answer(req, 200, "restmailer is serving requests")>>
                    ELSE <<Answer(req, 404, "Method not found")>>)
    /\ UNCHANGED <<conf, env, now, runtime, nextGuid, th, snap, file, main, hist>>

\* ------------------------------------------------------- delivery engine
\* structures.py mime_object of a text part (MIMEText) and of an attachment
\* (MIMEBase with the decoded content re-encoded in base64, which gives back a
\* canonical content_b64, and a Content-Disposition with the file name)
mime_object(part) ==
    IF part.type = "text"
    THEN [content_type |-> "text/" \o part.subtype, payload |-> part.text,
          filename |-> "", parts |-> <<>>]
    ELSE [content_type |-> part.content_type, payload |-> part.content_b64,
          filename |-> part.name, parts |-> <<>>]

\* the outer object is the single part, whatever its type
MimeOuterAnySingle(data) ==
    IF Len(data) = 1
    THEN mime_object(data[1])
    ELSE [content_type |-> "multipart/mixed", payload |-> "", filename |-> "",
          parts |-> [i \in 1..Len(data) |-> mime_object(data[i])]]

\* mailer.py build_mime_message lines 29-33: the outer MIME object
MimeOuter(data) ==
    IF Len(data) = 1 /\ data[1].type = "text"
    THEN mime_object(data[1])
    ELSE [content_type |-> "multipart/mixed", payload |-> "", filename |-> "",
          parts |-> [i \in 1..Len(data) |-> mime_object(data[i])]]

\* mailer.py build_mime_message: the message handed to SMTP; dkim counts its
\* DKIM-Signature headers
build_mime_message(data, dkim) ==
    [outer |-> MimeOuter(data), dkim |-> dkim]

\* every return says: do not try another mx
ReturnNoRetry(f, status, again) ==
    [f EXCEPT !.message_sended = status, !.try_again = FALSE, !.pc = "after"]

\* a frame leaves try_connect_server_and_send with (status, try another mx)
Return(f, status, again) ==
    [f EXCEPT !.message_sended = status, !.try_again = again, !.pc = "after"]

\* an empty MX list takes the failure exit of the loop
ResolveEmptyIsError(g) ==
    /\ Live
    /\ th[g].pc = "resolve"
    /\ \E res \in env.doh :
        LET mx == get_mx_server_address(res) IN
        IF mx = <<>>
        THEN LogStep(g, "mailer", Msg("cannot get mx servers for", "", 0),
                     [th[g] EXCEPT !.doh = <<res>>, !.pc = "finish"])
        ELSE LogStep(g, "mailer", Msg("mx servers for target_address", "", Len(mx)),
                     [th[g] EXCEPT !.doh = <<res>>, !.pc = "build", !.mx_servers = mx])
    /\ UNCHANGED <<conf, env, nextGuid, snap, file, main, response>>

\* api_send_message lines 149-160: resolve the MX hosts; none ends the call
\* with False and the state untouched
Resolve(g) ==
    /\ Live
    /\ th[g].pc = "resolve"
    /\ \E res \in env.doh :
        LET mx == get_mx_server_address(res) IN
        IF mx = <<>>
        THEN LogStep(g, "mailer", Msg("cannot get mx servers for", "", 0),
                     [th[g] EXCEPT !.doh = <<res>>, !.pc = "returned", !.ret = "False"])
        ELSE LogStep(g, "mailer", Msg("mx servers for target_address", "", Len(mx)),
                     [th[g] EXCEPT !.doh = <<res>>, !.pc = "build", !.mx_servers = mx])
    /\ UNCHANGED <<conf, env, nextGuid, snap, file, main, response>>

\* api_send_message line 162, build_mime_message: reads ts_added of the job;
\* with a DKIM key the signature (or the signing error) is logged
Build(g) ==
    /\ Live
    /\ th[g].pc = "build"
    /\ IF g \notin DOMAIN runtime
       THEN /\ th' = [th EXCEPT ![g] = Raised(th[g])]
            /\ UNCHANGED <<now, runtime, hist>>
       ELSE IF conf.dkim_key_path
       THEN \/ LogStep(g, "mailer-dkim", Msg("sign generated", "", 0),
                       [th[g] EXCEPT !.pc = "loop",
                                     !.message = <<build_mime_message(runtime[g].message.data, 1)>>])
            \/ LogStep(g, "mailer-dkim", Msg("sign generation error", "", 0),
                       [th[g] EXCEPT !.pc = "loop",
                                     !.message = <<build_mime_message(runtime[g].message.data, 0)>>])
       ELSE /\ th' = [th EXCEPT ![g].pc = "loop",
                                ![g].message = <<build_mime_message(runtime[g].message.data, 0)>>]
            /\ UNCHANGED <<now, runtime, hist>>
    /\ UNCHANGED <<conf, env, nextGuid, snap, file, main, response>>

\* the deadline test with >= in place of >
timeout_reachedNonStrict(t, item) == t - item.ts_added >= item.message.send_timeout

\* api_send_message line 178: int(time.time()) - ts_added > send_timeout
timeout_reached(t, item) == t - item.ts_added > item.message.send_timeout

\* a loop that starts the attempt without its 'try mx server' event
LoopSilent(g) ==
    /\ Live
    /\ th[g].pc = "loop"
    /\ th' = [th EXCEPT ![g] =
                IF Len(th[g].mx_servers) > 0
                THEN [th[g] EXCEPT !.current_mx_server = th[g].mx_servers[1],
                                   !.conn = "none", !.send_result = "none",
                                   !.pc = IF conf.proxy THEN "proxy" ELSE "connect"]
                ELSE [th[g] EXCEPT !.pc = "finish"]]
    /\ UNCHANGED <<conf, env, now, runtime, nextGuid, snap, file, main, response, hist>>

\* a loop that tests the deadline before each attempt
LoopDeadlineFirst(g) ==
    /\ Live
    /\ th[g].pc = "loop"
    /\ IF /\ Len(th[g].mx_servers) > 0
          /\ ~(g \in DOMAIN runtime /\ timeout_reached(now, runtime[g]))
       THEN LogStep(g, "mailer", Msg("try mx server for send", th[g].mx_servers[1], 0),
                    [th[g] EXCEPT !.current_mx_server = th[g].mx_servers[1],
                                  !.conn = "none", !.send_result = "none",
                                  !.pc = IF conf.proxy THEN "proxy" ELSE "connect"])
       ELSE /\ th' = [th EXCEPT ![g].pc = "finish"]
            /\ UNCHANGED <<now, runtime, hist>>
    /\ UNCHANGED <<conf, env, nextGuid, snap, file, main, response>>

\* api_send_message lines 165-170: the loop test and the 'try mx server' event
Loop(g) ==
    /\ Live
    /\ th[g].pc = "loop"
    /\ IF Len(th[g].mx_servers) > 0
       THEN LogStep(g, "mailer", Msg("try mx server for send", th[g].mx_servers[1], 0),
                    [th[g] EXCEPT !.current_mx_server = th[g].mx_servers[1],
                                  !.conn = "none", !.send_result = "none",
                                  !.pc = IF conf.proxy THEN "proxy" ELSE "connect"])
       ELSE /\ th' = [th EXCEPT ![g].pc = "finish"]
            /\ UNCHANGED <<now, runtime, hist>>
    /\ UNCHANGED <<conf, env, nextGuid, snap, file, main, response>>

\* try_connect_server_and_send lines 80-86: the proxy event
Proxy(g) ==
    /\ Live
    /\ th[g].pc = "proxy"
    /\ LogStep(g, "smtp", Msg("using proxy from configuration", th[g].current_mx_server, 0),
               [th[g] EXCEPT !.pc = "connect"])
    /\ UNCHANGED <<conf, env, nextGuid, snap, file, main, response>>

\* try_connect_server_and_send lines 88-94: server.connect(mx_host)
Connect(g) ==
    /\ Live
    /\ th[g].pc = "connect"
    /\ \/ /\ th' = [th EXCEPT ![g].pc = "ehlo", ![g].conn = "open"]
          /\ UNCHANGED <<now, runtime, hist>>
       \/ LogStep(g, "smtp", Msg("cannot connect to mx server", th[g].current_mx_server, 0),
                  Return(th[g], FALSE, TRUE))
    /\ UNCHANGED <<conf, env, nextGuid, snap, file, main, response>>

\* try_connect_server_and_send lines 96-101: server.ehlo() is outside every try,
\* its exception leaves api_send_message; STARTTLS in the answer is logged
Ehlo(g) ==
    /\ Live
    /\ th[g].pc = "ehlo"
    /\ \/ /\ th' = [th EXCEPT ![g] = Raised(th[g])]
          /\ UNCHANGED <<now, runtime, hist>>
       \/ /\ th' = [th EXCEPT ![g].pc = "send"]
          /\ UNCHANGED <<now, runtime, hist>>
       \/ LogStep(g, "smtp-tls", Msg("STARTTLS is available, trying upgrade",
                                     th[g].current_mx_server, 0),
                  [th[g] EXCEPT !.pc = "starttls"])
    /\ UNCHANGED <<conf, env, nextGuid, snap, file, main, response>>

\* try_connect_server_and_send lines 103-118: server.starttls(context)
Starttls(g) ==
    /\ Live
    /\ th[g].pc = "starttls"
    /\ \/ LogStep(g, "smtp-tls", Msg("exception on tls upgrade", th[g].current_mx_server, 0),
                  Return(th[g], FALSE, TRUE))
       \/ LogStep(g, "smtp-tls", Msg("tls_code, tls_status", th[g].current_mx_server, 0),
                  [th[g] EXCEPT !.pc = "send"])
    /\ UNCHANGED <<conf, env, nextGuid, snap, file, main, response>>

\* try_connect_server_and_send lines 120-127: server.send_message(); the MX
\* host has taken the message when the failure map it returns is empty
SendMessage(g) ==
    /\ Live
    /\ th[g].pc = "send"
    /\ \/ LogStep(g, "smtp", Msg("send mail error", th[g].current_mx_server, 0),
                  Return(th[g], FALSE, TRUE))
       \/ \E res \in {"empty", "refused"} :
            /\ th' = [th EXCEPT ![g].pc = "quit", ![g].send_result = res,
                                ![g].accepted = @ \/ (res = "empty")]
            /\ UNCHANGED <<now, runtime, hist>>
    /\ UNCHANGED <<conf, env, nextGuid, snap, file, main, response>>

\* try_connect_server_and_send lines 129-145: server.quit() is outside every
\* try; then the result event and the return value
Quit(g) ==
    /\ Live
    /\ th[g].pc = "quit"
    /\ \/ /\ th' = [th EXCEPT ![g] = Raised(th[g])]
          /\ UNCHANGED <<now, runtime, hist>>
       \/ IF th[g].send_result = "empty"
          THEN IF g \in DOMAIN runtime
               THEN \E t \in ClockRead : \E t2 \in t..env.max_time :
                      /\ now' = t2
                      /\ runtime' = [runtime EXCEPT
                                       ![g] = log(@, t2, "smtp",
                                                  Msg("mail sended successfully in",
                                                      th[g].current_mx_server,
                                                      t - runtime[g].ts_added))]
                      /\ th' = [th EXCEPT ![g] = [Return(th[g], TRUE, FALSE)
                                                    EXCEPT !.conn = "closed"]]
                      /\ Mutated
               ELSE /\ th' = [th EXCEPT ![g] = Raised([th[g] EXCEPT !.conn = "closed"])]
                    /\ UNCHANGED <<now, runtime, hist>>
          ELSE LogStep(g, "smtp", Msg("mail have some errors on send",
                                      th[g].current_mx_server, 0),
                       [Return(th[g], FALSE, FALSE) EXCEPT !.conn = "closed"])
    /\ UNCHANGED <<conf, env, nextGuid, snap, file, main, response>>

\* api_send_message lines 173-185: drop the host that was tried, then the
\* three exits of the loop: sent, deadline passed, no retry
After(g) ==
    /\ Live
    /\ th[g].pc = "after"
    /\ LET rest == remove(th[g].mx_servers, th[g].current_mx_server) IN
       IF th[g].message_sended
       THEN /\ th' = [th EXCEPT ![g].mx_servers = rest, ![g].pc = "finish"]
            /\ UNCHANGED <<now, runtime, hist>>
       ELSE IF g \notin DOMAIN runtime
       THEN /\ th' = [th EXCEPT ![g] = Raised([th[g] EXCEPT !.mx_servers = rest])]
            /\ UNCHANGED <<now, runtime, hist>>
       ELSE \E t \in ClockRead :
              IF timeout_reached(t, runtime[g])
              THEN \E t2 \in t..env.max_time :
                     /\ now' = t2
                     /\ runtime' = [runtime EXCEPT
                                      ![g] = log(@, t2, "mailer",
                                                 Msg("message send timeout reached", "", 0))]
                     /\ th' = [th EXCEPT ![g].mx_servers = rest, ![g].pc = "finish"]
                     /\ Mutated
              ELSE /\ now' = t
                   /\ th' = [th EXCEPT ![g].mx_servers = rest,
                                       ![g].pc = IF ~th[g].try_again THEN "finish" ELSE "loop"]
                   /\ UNCHANGED <<runtime, hist>>
    /\ UNCHANGED <<conf, env, nextGuid, snap, file, main, response>>

\* api_send_message lines 187-190 and 194-195
Finish(g) ==
    /\ Live
    /\ th[g].pc = "finish"
    /\ IF ~th[g].message_sended
       THEN LogStep(g, "mailer", Msg("cannot send message: all mx servers is down or timeout reached",
                                     "", 0),
                    [th[g] EXCEPT !.pc = "set_error"])
       ELSE IF g \in DOMAIN runtime
       THEN /\ runtime' = SetState(runtime, g, "sended")
            /\ th' = [th EXCEPT ![g].pc = "returned", ![g].ret = "True"]
            /\ Mutated
            /\ UNCHANGED now
       ELSE /\ th' = [th EXCEPT ![g] = Raised(th[g])]
            /\ UNCHANGED <<now, runtime, hist>>
    /\ UNCHANGED <<conf, env, nextGuid, snap, file, main, response>>

\* api_send_message lines 191-192
SetError(g) ==
    /\ Live
    /\ th[g].pc = "set_error"
    /\ IF g \in DOMAIN runtime
       THEN /\ runtime' = SetState(runtime, g, "error")
            /\ th' = [th EXCEPT ![g].pc = "returned", ![g].ret = "False"]
            /\ Mutated
       ELSE /\ th' = [th EXCEPT ![g] = Raised(th[g])]
            /\ UNCHANGED <<runtime, hist>>
    /\ UNCHANGED <<conf, env, now, nextGuid, snap, file, main, response>>

\* ------------------------------------------------- snapshotter, rt_save
\* the comparison left out: every iteration saves
CompareAlways(sn, rt_hash) ==
    IF conf.runtime_file_path
    THEN [sn EXCEPT !.pc = "rt_save", !.rt_hash = rt_hash]
    ELSE [sn EXCEPT !.pc = "top", !.rt_hash = rt_hash, !.last_rt_hash = rt_hash,
                    !.rt = <<>>, !.used = 0]

\* _cleanup_runtime lines 131-133 when the hash is compared: rt_save() is
\* entered when the hash differs from the last one (and writes when
\* runtime_file_path is set), otherwise the iteration ends
Compare(sn, rt_hash) ==
    IF sn.last_rt_hash # rt_hash /\ conf.runtime_file_path
    THEN [sn EXCEPT !.pc = "rt_save", !.rt_hash = rt_hash]
    ELSE [sn EXCEPT !.pc = "top", !.rt_hash = rt_hash, !.last_rt_hash = rt_hash,
                    !.rt = <<>>, !.used = 0]

\* the record of an iteration: taken when its serialization ends ...
Looked(h, sn) ==
    [h EXCEPT !.tick = <<[first |-> (sn.last_rt_hash = <<>>), quiet |-> ~h.older,
                          between |-> h.between, decided |-> FALSE, wrote |-> FALSE]>>,
              !.between = FALSE]

\* ... and completed when the iteration has decided whether to write
Decided(h, sn2) ==
    [h EXCEPT !.tick = <<[@[1] EXCEPT !.decided = TRUE, !.wrote = (sn2.pc = "rt_save")]>>]

\* _cleanup_runtime line 125: the dict comprehension over self.runtime.items().
\* Each step is one next() of the dict iterator: it raises RuntimeError when
\* the dict changed size since the iterator was made, dumps the next item, or
\* ends the comprehension; lines 126-128 follow the end
SnapSerialize ==
    /\ Live
    /\ snap.pc \in {"top", "serialize"}
    /\ LET used == IF snap.pc = "top" THEN Cardinality(DOMAIN runtime) ELSE snap.used
           rt == IF snap.pc = "top" THEN <<>> ELSE snap.rt
           h == IF snap.pc = "top"
                THEN [hist EXCEPT !.older = hist.newer, !.newer = FALSE]
                ELSE hist
           todo == SelectSeq(keys(runtime), LAMBDA k : Len(rt) = 0 \/ k > rt[Len(rt)][1])
       IN
       IF Cardinality(DOMAIN runtime) # used
       THEN /\ snap' = [snap EXCEPT !.pc = "crashed"]
            /\ hist' = h
       ELSE IF todo # <<>>
       THEN /\ snap' = [snap EXCEPT !.pc = "serialize", !.used = used,
                          !.rt = Append(rt, <<Head(todo), model_dump(runtime[Head(todo)], {})>>)]
            /\ hist' = h
       ELSE LET sn == [snap EXCEPT !.rt = rt, !.used = used] IN
            IF DataLen(rt) > RuntimeCeiling
            THEN /\ snap' = [sn EXCEPT !.pc = "evict", !.rt_hash = sha256(rt)]
                 /\ hist' = Looked(h, sn)
            ELSE /\ snap' = Compare(sn, sha256(rt))
                 /\ hist' = Decided(Looked(h, sn), Compare(sn, sha256(rt)))
    /\ UNCHANGED <<conf, env, now, runtime, nextGuid, th, file, main, response>>

\* _cleanup_runtime lines 128-129: over the ceiling, the first key is popped
SnapEvict ==
    /\ Live
    /\ snap.pc = "evict"
    /\ runtime' = [k \in DOMAIN runtime \ {keys(runtime)[1]} |-> runtime[k]]
    /\ snap' = Compare(snap, snap.rt_hash)
    /\ hist' = Touch(Decided(hist, Compare(snap, snap.rt_hash)))
    /\ UNCHANGED <<conf, env, now, nextGuid, th, file, main, response>>

\* rt_save line 118: open(runtime_file_path, 'w') truncates the file
Open(f, who) == [f EXCEPT !.writers = @ \cup {who}, !.content = <<>>]

\* rt_save line 119: f.write(self.runtime.model_dump_json()) and the close
Write(f, who, rt) ==
    [f EXCEPT !.writers = @ \ {who}, !.content = <<model_dump_json(rt)>>, !.author = who]

\* rt_save called from _cleanup_runtime line 132
SnapSaveOpen ==
    /\ Live
    /\ snap.pc = "rt_save"
    /\ file' = Open(file, "snapshotter")
    /\ snap' = [snap EXCEPT !.pc = "write"]
    /\ UNCHANGED <<conf, env, now, runtime, nextGuid, th, main, response, hist>>

\* the write of rt_save, then lines 133-134
SnapSaveWrite ==
    /\ Live
    /\ snap.pc = "write"
    /\ file' = Write(file, "snapshotter", runtime)
    /\ snap' = [snap EXCEPT !.pc = "top", !.last_rt_hash = snap.rt_hash,
                            !.rt = <<>>, !.used = 0]
    /\ UNCHANGED <<conf, env, now, runtime, nextGuid, th, main, response, hist>>

\* HTTPServer.shutdown_instance, run by the main thread on SIGINT / SIGTERM:
\* line 200 calls conf.rt_save()
Shutdown ==
    /\ Live
    /\ main = "serving"
    /\ IF conf.runtime_file_path
       THEN /\ file' = Open(file, "main")
            /\ main' = "saving"
       ELSE /\ main' = "closed"
            /\ UNCHANGED file
    /\ UNCHANGED <<conf, env, now, runtime, nextGuid, th, snap, response, hist>>

\* shutdown_instance: the write of rt_save, then lines 201-203 close the listener.
\* No request is accepted afterwards; the daemon threads run on until the
\* process ends, which may be at any moment
ShutdownWrite ==
    /\ Live
    /\ main = "saving"
    /\ file' = Write(file, "main", runtime)
    /\ main' = "closed"
    /\ UNCHANGED <<conf, env, now, runtime, nextGuid, th, snap, response, hist>>

\* ------------------------------------------------------------ the system
InitWith(c, e) ==
    /\ conf = c
    /\ env = e
    /\ now = 0
    /\ runtime = << >>
    /\ nextGuid = 0
    /\ th = [g \in Guids |-> IdleThread]
    /\ snap = [pc |-> "top", last_rt_hash |-> <<>>, rt |-> <<>>, used |-> 0, rt_hash |-> <<>>]
    /\ file = [content |-> <<>>, writers |-> {}, author |-> "none"]
    /\ main = "serving"
    /\ response = <<>>
    /\ hist = [newer |-> FALSE, older |-> FALSE, between |-> FALSE, tick |-> <<>>]

\* configurations (environment variables of the process)
Conf(tokens, path, proxy, dkim) ==
    [auth_tokens |-> tokens, runtime_file_path |-> path, proxy |-> proxy,
     dkim_key_path |-> dkim, max_body |-> MaxBody, docs_enabled |-> FALSE]

\* the outside world: well-behaved clients that send valid, authorized requests
\* to the two send endpoints, and every answer the network can give
World ==
    [doh |-> {NxDomain, DohAnswer(<<Mx1>>), DohAnswer(<<Mx2, Mx1>>), DohAnswer(<<Mx1, Mx1>>)},
     paths |-> {"/message/send", "/message/async-send"},
     get_paths |-> {"/message/"},
     tokens |-> {"token"},
     lengths |-> {MaxBody},
     valid |-> {TRUE},
     data |-> {<<TextPart>>, <<TextPart, AttachmentPart>>},
     timeouts |-> {1},
     jobs |-> MaxJobs,
     max_time |-> MaxTime]

\* the delivery engine
Deliver(g) ==
    \/ Resolve(g) \/ Build(g) \/ Loop(g) \/ Proxy(g) \/ Connect(g) \/ Ehlo(g)
    \/ Starttls(g) \/ SendMessage(g) \/ Quit(g) \/ After(g) \/ Finish(g) \/ SetError(g)

\* the send endpoints and the deliveries they start
NextDelivery ==
    \/ do_POST
    \/ ClientReceive
    \/ \E g \in Guids : PostReceived(g)
    \/ \E g \in Guids : PostSendAnswer(g)
    \/ \E g \in Guids : PostAsyncAnswer(g)
    \/ \E g \in Guids : Deliver(g)

\* the snapshotter thread and the signal handler
NextSnapshot ==
    \/ SnapSerialize
    \/ SnapEvict
    \/ SnapSaveOpen
    \/ SnapSaveWrite
    \/ Shutdown
    \/ ShutdownWrite

Next == NextDelivery \/ NextSnapshot

NextIngress == NextDelivery \/ do_GET

\* The process with its snapshotter and signal handler, in two worlds:
\* MaxJobs jobs whose MX resolution fails, with a snapshot file; and one job
\* less whose domain has one MX host, behind a proxy, with a moving clock and
\* no snapshot file
Init ==
    \/ InitWith(Conf({"token"}, TRUE, FALSE, FALSE),
                [World EXCEPT !.doh = {NxDomain}, !.data = {<<TextPart, AttachmentPart>>},
                              !.max_time = 0])
    \/ InitWith(Conf({"token"}, FALSE, TRUE, FALSE),
                [World EXCEPT !.doh = {NxDomain, DohAnswer(<<Mx1>>)}, !.data = {<<TextPart>>},
                              !.jobs = MaxJobs - 1, !.max_time = MaxTime - 1])

Spec == Init /\ [][Next]_vars

\* One delivery in full: every MX answer, every SMTP outcome, the clock up to
\* MaxTime, with and without proxy and DKIM key
InitDelivery ==
    \E proxy \in BOOLEAN, dkim \in BOOLEAN :
        InitWith(Conf({"token"}, FALSE, proxy, dkim), [World EXCEPT !.jobs = MaxJobs - 1])

SpecDelivery == InitDelivery /\ [][NextDelivery]_vars

\* The ingress: every kind of request, with and without configured tokens
InitIngress ==
    \E tokens \in {{}, {"token"}} :
        InitWith(Conf(tokens, FALSE, TRUE, FALSE),
                 [World EXCEPT !.doh = {NxDomain, DohAnswer(<<Mx1>>)},
                               !.paths = @ \cup {"/other"},
                               !.tokens = @ \cup {"bad"},
                               !.lengths = @ \cup {MaxBody + 1},
                               !.valid = BOOLEAN,
                               !.data = {<<TextPart, AttachmentPart>>},
                               !.jobs = MaxJobs - 1,
                               !.max_time = 0])

SpecIngress == InitIngress /\ [][NextIngress]_vars

\* The HTTP layer: every GET path, with the documentation page on and off,
\* behind a proxy
InitHttp ==
    \E tokens \in {{}, {"token"}}, docs \in BOOLEAN :
        InitWith([Conf(tokens, FALSE, TRUE, FALSE) EXCEPT !.docs_enabled = docs],
                 [World EXCEPT !.doh = {NxDomain, DohAnswer(<<Mx1>>)},
                               !.paths = @ \cup {"/other"},
                               !.get_paths = @ \cup {"/docs", "/", "/other"},
                               !.tokens = @ \cup {"bad"},
                               !.lengths = @ \cup {MaxBody + 1},
                               !.valid = BOOLEAN,
                               !.data = {<<TextPart>>},
                               !.jobs = MaxJobs - 1,
                               !.max_time = 0])

SpecHttp == InitHttp /\ [][NextIngress]_vars

\* The resolver alone: every DoH response with up to MaxAnswers answers, among
\* them a CNAME record, a record without preference and preferences whose
\* numeric and alphabetic orders differ
DohEntries ==
    {[type |-> 15, data |-> d] :
        d \in {Mx1, Mx2, MxData(<<"2">>, <<"m", "x", "3">>), <<"m", "x", "4", ".">>}}
    \cup {[type |-> 5, data |-> <<"m", "x", "5", ".">>]}

DohResponses ==
    {[ok |-> TRUE, Status |-> st, has_answer |-> TRUE, Answer |-> a] :
        st \in {0, 2, 3}, a \in UNION {[1..n -> DohEntries] : n \in 0..MaxAnswers}}
    \cup {[NxDomain EXCEPT !.Status = 0], NxDomain, [NxDomain EXCEPT !.ok = FALSE]}

InitResolver ==
    InitWith(Conf({"token"}, FALSE, FALSE, FALSE),
             [World EXCEPT !.doh = DohResponses, !.data = {<<TextPart>>},
                           !.jobs = MaxJobs - 1, !.max_time = 0])

NextResolver ==
    \/ do_POST
    \/ \E g \in Guids : PostReceived(g)
    \/ \E g \in Guids : Resolve(g)

SpecResolver == InitResolver /\ [][NextResolver]_vars

\* The MIME builder: every data sequence of up to MaxParts parts, with and
\* without DKIM key
InitBuild ==
    \E dkim \in BOOLEAN :
        InitWith(Conf({"token"}, FALSE, FALSE, dkim),
                 [World EXCEPT !.doh = {DohAnswer(<<Mx1>>)},
                               !.data = UNION {[1..n -> {TextPart, HtmlPart, AttachmentPart}] :
                                                  n \in 0..MaxParts},
                               !.jobs = MaxJobs - 1, !.max_time = 0])

NextBuild ==
    \/ do_POST
    \/ \E g \in Guids : PostReceived(g)
    \/ \E g \in Guids : Resolve(g)
    \/ \E g \in Guids : Build(g)

SpecBuild == InitBuild /\ [][NextBuild]_vars

\* ---------------------------------------------------------------- claims
States == {"sending", "sended", "error"}

\* the api_send_message call made for job g has ended
CallEnded(g) == th[g].pc \in {"returned", "raised"}

\* the response on the wire carries a RuntimeItem
ItemAnswer(paths) ==
    /\ response # <<>>
    /\ response[1].path \in paths
    /\ response[1].status \in {200, 418}

\* C1: every call of api_send_message returns True exactly when an MX host took
\* the message with an empty failure map, and returns False in every other outcome.
C1_ReturnsTrueIffDelivered ==
    \A g \in Guids :
        CallEnded(g) =>
            /\ (th[g].ret = "True") <=> th[g].accepted
            /\ ~th[g].accepted => th[g].ret = "False"

\* C2: a job's state is always one of sending, sended, error; a job enters the
\* registry in state sending; the only changes are sending -> sended and
\* sending -> error, so a terminal state never changes.
C2_StateMonotonic ==
    [][\A g \in DOMAIN runtime' :
          /\ runtime'[g].state \in States
          /\ g \notin DOMAIN runtime => runtime'[g].state = "sending"
          /\ g \in DOMAIN runtime =>
                \/ runtime'[g].state = runtime[g].state
                \/ /\ runtime[g].state = "sending"
                   /\ runtime'[g].state \in {"sended", "error"}]_vars

\* C2 witness: a job has reached sended while the snapshotter has completed an iteration
C2_Witness ==
    /\ \E g \in DOMAIN runtime : runtime[g].state = "sended"
    /\ snap.last_rt_hash # <<>>

\* C3: every job accepted by /message/async-send leaves state sending: once its
\* delivery thread has ended, the job is in sended or error.
C3_AsyncJobLeavesSending ==
    \A g \in DOMAIN runtime :
        (th[g].request.path = "/message/async-send" /\ CallEnded(g))
            => runtime[g].state \in {"sended", "error"}

\* C4: the answer to POST /message/send is 200 exactly when the item in its body
\* is in state sended and 418 exactly when it is in state error; no answer
\* carries an item in state sending.
C4_SendStatusMatchesState ==
    ItemAnswer({"/message/send"}) =>
        /\ (response[1].status = 200) <=> (response[1].body.state = "sended")
        /\ (response[1].status = 418) <=> (response[1].body.state = "error")
        /\ response[1].body.state # "sending"

\* C5: the answer to POST /message/async-send is 200 with the item in state
\* sending, however the request thread and the delivery thread interleave.
C5_AsyncAnswerIsSending ==
    ItemAnswer({"/message/async-send"}) =>
        /\ response[1].status = 200
        /\ response[1].body.state = "sending"

\* a request that passes the body cap, the routing, the auth check and validation
PassesIngress(req) ==
    /\ req.length <= conf.max_body
    /\ req.path \in {"/message/send", "/message/async-send"}
    /\ conf.auth_tokens = {} \/ req.authorization \in conf.auth_tokens
    /\ req.valid

\* C6: a POST answered 400, 401 or 404 at ingress changes neither the registry
\* nor any thread; a registry entry appears, and api_send_message starts, only
\* for a request that passed the size check, the auth check and validation.
C6_RejectedLeavesNoTrace ==
    [][/\ (/\ response = <<>> /\ response' # <<>>
           /\ response'[1].method = "POST"
           /\ response'[1].status \in {400, 401, 404})
          => (runtime' = runtime /\ th' = th /\ nextGuid' = nextGuid)
       /\ \A g \in Guids :
            (\/ g \in DOMAIN runtime' \ DOMAIN runtime
             \/ th[g].pc = "none" /\ th'[g].pc # "none")
            => PassesIngress(th'[g].request)]_vars

\* C6 witness: an unauthorized POST is being answered 401 while a job is registered
C6_Witness ==
    /\ response # <<>>
    /\ response[1].method = "POST"
    /\ response[1].status = 401
    /\ DOMAIN runtime # {}

\* C7: no RuntimeItem answered by GET /message/<guid>, POST /message/send or
\* POST /message/async-send contains the content_b64 of an attachment.
C7_AnswersOmitAttachmentBodies ==
    ItemAnswer({"/message/", "/message/send", "/message/async-send"}) =>
        \A i \in 1..Len(response[1].body.message.data) :
            "content_b64" \notin DOMAIN response[1].body.message.data[i]

\* C8: an iteration of the snapshotter writes only when the hash differs from
\* the previous one: no mutation since the previous iteration began to look
\* means no write; the first iteration writes; a mutation between the previous
\* look and this one means a write (with runtime_file_path set).
C8_WriteOnlyOnChange ==
    (hist.tick # <<>> /\ hist.tick[1].decided) =>
        LET t == hist.tick[1] IN
        /\ (~t.first /\ t.quiet) => ~t.wrote
        /\ (conf.runtime_file_path /\ t.first) => t.wrote
        /\ (conf.runtime_file_path /\ ~t.first /\ t.between) => t.wrote

\* C8 witness: a later iteration found a registry with jobs unchanged and did not
\* write, after an earlier one had written the file
C8_Witness ==
    /\ hist.tick # <<>>
    /\ hist.tick[1].decided /\ ~hist.tick[1].first
    /\ hist.tick[1].quiet /\ ~hist.tick[1].wrote
    /\ file.author = "snapshotter"
    /\ DOMAIN runtime # {}

\* C9: the snapshot file has a single writer: at most one thread has it open
\* for writing, and every write is made by the snapshotter loop, shutdown included.
C9_SingleWriter ==
    /\ Cardinality(file.writers) <= 1
    /\ file.writers \subseteq {"snapshotter"}
    /\ file.author \in {"none", "snapshotter"}

\* C10: every change of a job's event log appends exactly one event whose ts is
\* not below the ts of the last one; no event is modified, reordered or
\* removed, and ts_added never changes.
C10_EventsAppendOnly ==
    [][\A g \in DOMAIN runtime \cap DOMAIN runtime' :
          /\ runtime'[g].ts_added = runtime[g].ts_added
          /\ \/ runtime'[g].events = runtime[g].events
             \/ /\ Len(runtime'[g].events) = Len(runtime[g].events) + 1
                /\ SubSeq(runtime'[g].events, 1, Len(runtime[g].events)) = runtime[g].events
                /\ \/ runtime[g].events = <<>>
                   \/ runtime'[g].events[Len(runtime'[g].events)].ts
                        >= runtime[g].events[Len(runtime[g].events)].ts]_vars

\* C10 witness: a job whose log has grown while the clock moved
C10_Witness ==
    \E g \in DOMAIN runtime :
        /\ Len(runtime[g].events) >= 3
        /\ runtime[g].events[Len(runtime[g].events)].ts > runtime[g].events[1].ts

\* C11: a message an MX host has accepted carries exactly one DKIM-Signature
\* header when mail.dkim_key_path is set and none when it is not.
C11_DeliveredIsSignedOnce ==
    \A g \in Guids :
        th[g].accepted =>
            th[g].message[1].dkim = (IF conf.dkim_key_path THEN 1 ELSE 0)

\* the host of an MX record as the resolver contract gives it: the part after
\* the preference, or the whole record when there is none, without trailing dot
HostOf(data) ==
    LET d == rstrip(data) IN
    IF \E k \in 1..Len(d) : d[k] = " " THEN str(split(d)[2]) ELSE str(d)

HasPreference(data) == \E k \in 1..Len(data) : data[k] = " "

\* C12: for a DoH response with Status 0 the resolver returns the host of every
\* type-15 answer, ascending by numeric preference, without trailing dot, a
\* record without preference kept as it is; for any other response it returns [].
C12_ResolverContract ==
    \A g \in Guids :
        (th[g].doh # <<>> /\ th[g].pc \in {"build", "returned"}) =>
            LET res == th[g].doh[1]
                out == th[g].mx_servers
                mx  == SelectSeq(res.Answer, LAMBDA answer : answer.type = 15)
            IN IF res.ok /\ res.Status = 0
               THEN \E p \in [1..Len(mx) -> 1..Len(mx)] :
                      /\ \A i, j \in 1..Len(mx) : p[i] = p[j] => i = j
                      /\ out = [i \in 1..Len(mx) |-> HostOf(mx[p[i]].data)]
                      /\ \A i, j \in 1..Len(mx) :
                            (i < j /\ HasPreference(mx[p[i]].data) /\ HasPreference(mx[p[j]].data))
                                => PreferenceKey(mx[p[i]].data) <= PreferenceKey(mx[p[j]].data)
               ELSE out = <<>>

\* the MIME object a data part stands for, from the part's fields
IsPartOf(obj, part) ==
    /\ obj.parts = <<>>
    /\ IF part.type = "text"
       THEN obj.content_type = "text/" \o part.subtype /\ obj.payload = part.text
       ELSE obj.content_type = part.content_type /\ obj.filename = part.name

\* C13: the outer message is the text part itself exactly when data is a single
\* text part; for every other data it is a multipart/mixed container with one
\* sub-part per data part, in submission order.
C13_OuterShape ==
    \A g \in Guids :
        th[g].message # <<>> =>
            LET data  == th[g].request.data
                outer == th[g].message[1].outer
            IN IF Len(data) = 1 /\ data[1].type = "text"
               THEN IsPartOf(outer, data[1])
               ELSE /\ outer.content_type = "multipart/mixed"
                    /\ Len(outer.parts) = Len(data)
                    /\ \A i \in 1..Len(data) : IsPartOf(outer.parts[i], data[i])

\* C13 witness: a message built from an attachment followed by a text part
C13_Witness ==
    \E g \in Guids :
        /\ th[g].message # <<>>
        /\ Len(th[g].request.data) = 2
        /\ th[g].request.data[1].type = "attachment"
        /\ th[g].request.data[2].type = "text"
        /\ th[g].message[1].outer.content_type = "multipart/mixed"

\* the hosts on which an attempt was made for job g, in order: one 'try mx
\* server for send' event is logged right before each call of
\* try_connect_server_and_send
RECURSIVE TriedIn(_)
TriedIn(events) ==
    IF events = <<>> THEN <<>>
    ELSE TriedIn(SubSeq(events, 1, Len(events) - 1))
         \o (IF events[Len(events)].message[1] = "try mx server for send"
             THEN <<events[Len(events)].message[2]>> ELSE <<>>)

Attempts(rt, g) == IF g \in DOMAIN rt THEN TriedIn(rt[g].events) ELSE <<>>

\* the list the resolver returned to the call made for job g
Resolved(f) == IF f.doh = <<>> THEN <<>> ELSE get_mx_server_address(f.doh[1])

\* C14: the hosts attempted for a job are a prefix of the resolver's list, in
\* its order, each position at most once; after an MX host has accepted the
\* message no further attempt is made.
C14_AttemptsArePrefix ==
    [][\A g \in Guids :
          LET tried == Attempts(runtime', g)
              mx    == Resolved(th'[g])
          IN /\ Len(tried) <= Len(mx)
             /\ tried = SubSeq(mx, 1, Len(tried))
             /\ th[g].accepted => tried = Attempts(runtime, g)]_vars

\* C14 witness: the second of two hosts has accepted the message
C14_Witness ==
    \E g \in Guids :
        /\ Resolved(th[g]) = <<"mx1", "mx2">>
        /\ Attempts(runtime, g) = <<"mx1", "mx2">>
        /\ th[g].accepted
        /\ runtime[g].state = "sended"

TransientFailures ==
    {"cannot connect to mx server", "exception on tls upgrade", "send mail error"}

\* the hosts of the transient failure events of a log, in order
RECURSIVE FailedIn(_)
FailedIn(events) ==
    IF events = <<>> THEN <<>>
    ELSE FailedIn(SubSeq(events, 1, Len(events) - 1))
         \o (IF events[Len(events)].message[1] \in TransientFailures
             THEN <<events[Len(events)].message[2]>> ELSE <<>>)

\* the deadline test of the loop, on the clock value the step has read
DeadlinePassed(g) == now' - runtime[g].ts_added > runtime[g].message.send_timeout

\* C15: a connect error, a STARTTLS exception or a send_message exception ends
\* the attempt with (False, True) and its event; then, unless the deadline has
\* passed, the loop goes on to the next host in order when one remains; a
\* later success leaves the job sended with each earlier failure in its events.
C15_TransientFailureFallsBack ==
    [][\A g \in DOMAIN runtime \cap DOMAIN runtime' :
          /\ (th[g].pc \in {"connect", "starttls", "send"} /\ th'[g].pc = "after")
                => /\ ~th'[g].message_sended /\ th'[g].try_again
                   /\ Len(runtime'[g].events) = Len(runtime[g].events) + 1
                   /\ runtime'[g].events[Len(runtime'[g].events)].message[1] \in TransientFailures
                   /\ runtime'[g].events[Len(runtime'[g].events)].message[2]
                        = th[g].current_mx_server
          /\ (th[g].pc = "after" /\ th'[g].pc # "after"
                /\ ~th[g].message_sended /\ th[g].try_again /\ ~DeadlinePassed(g))
                => /\ th'[g].pc = "loop"
                   /\ th'[g].mx_servers = Tail(th[g].mx_servers)
          /\ (th[g].pc = "loop" /\ th'[g].pc # "loop" /\ th[g].mx_servers # <<>>)
                => /\ th'[g].pc \in {"proxy", "connect"}
                   /\ th'[g].current_mx_server = th[g].mx_servers[1]
          /\ (th'[g].pc = "returned" /\ th'[g].message_sended)
                => /\ runtime'[g].state = "sended"
                   /\ FailedIn(runtime'[g].events)
                        = SubSeq(Attempts(runtime', g), 1, Len(Attempts(runtime', g)) - 1)]_vars

\* C15 witness: sended on the second host after a failed STARTTLS on the first
C15_Witness ==
    \E g \in DOMAIN runtime :
        /\ runtime[g].state = "sended"
        /\ FailedIn(runtime[g].events) = <<"mx1">>
        /\ \E i \in 1..Len(runtime[g].events) :
              runtime[g].events[i].message[1] = "exception on tls upgrade"
        /\ th[g].current_mx_server = "mx2"

\* C16: an exception of the EHLO exchange is logged and treated like the other
\* transient failures; the call of api_send_message never ends on it with the
\* job still in state sending.
C16_EhloFailureIsTransient ==
    \A g \in DOMAIN runtime :
        (th[g].pc = "raised" /\ th[g].conn = "open" /\ th[g].send_result = "none")
            => /\ runtime[g].state # "sending"
               /\ runtime[g].events[Len(runtime[g].events)].source # "mailer"

\* C17: once send_message has returned a non-empty failure map the attempt
\* returns (False, False) with the event 'mail have some errors on send', the
\* loop is left without another attempt, and the call ends with state error
\* and False.
C17_RefusedIsTerminal ==
    \A g \in DOMAIN runtime :
        (th[g].send_result = "refused" /\ th[g].pc # "quit") =>
            /\ th[g].pc \in {"after", "finish", "set_error", "returned"}
            /\ ~th[g].message_sended /\ ~th[g].try_again
            /\ \E i \in 1..Len(runtime[g].events) :
                  /\ runtime[g].events[i].message[1] = "mail have some errors on send"
                  /\ runtime[g].events[i].message[2] = th[g].current_mx_server
            /\ th[g].pc = "returned" => (runtime[g].state = "error" /\ th[g].ret = "False")

\* job g's log holds the event text at position i
EventAt(rt, g, i, text) == rt[g].events[i].message[1] = text

\* C18: after an attempt that did not send, the loop logs 'message send timeout
\* reached' exactly when now - ts_added > send_timeout, and then makes no
\* further attempt, whatever hosts remain; a job with that event in its log
\* never becomes sended and ends in state error.
C18_DeadlineStopsTheLoop ==
    [][\A g \in DOMAIN runtime \cap DOMAIN runtime' :
          LET n == Len(runtime'[g].events) IN
          /\ (th[g].pc = "after" /\ th'[g].pc # "after" /\ ~th[g].message_sended)
                => /\ DeadlinePassed(g)
                        <=> /\ n = Len(runtime[g].events) + 1
                            /\ EventAt(runtime', g, n, "message send timeout reached")
                   /\ DeadlinePassed(g) => th'[g].pc = "finish"
          /\ \A i \in 1..n :
                EventAt(runtime', g, i, "message send timeout reached")
                    => /\ \A j \in (i + 1)..n : ~EventAt(runtime', g, j, "try mx server for send")
                       /\ runtime'[g].state # "sended"
                       /\ th'[g].pc \in {"finish", "set_error", "returned"}
                       /\ th'[g].pc = "returned" => runtime'[g].state = "error"]_vars

\* C18 witness: a job ended in error by the deadline with a host left untried
\* after a transient failure
C18_Witness ==
    \E g \in DOMAIN runtime :
        /\ runtime[g].state = "error"
        /\ \E i \in 1..Len(runtime[g].events) :
              EventAt(runtime, g, i, "message send timeout reached")
        /\ th[g].mx_servers # <<>>
        /\ th[g].try_again

\* C19: the deadline is tested only after an attempt that did not send: with a
\* non-empty MX list the first host is attempted however late it is, and an
\* attempt that sends after the deadline still ends the job in state sended.
C19_DeadlineOnlyAfterFailure ==
    \A g \in DOMAIN runtime :
        LET events == runtime[g].events IN
        /\ \A i \in 1..Len(events) :
              EventAt(runtime, g, i, "message send timeout reached")
                  => /\ i > 1
                     /\ events[i - 1].message[1]
                          \in TransientFailures \cup {"mail have some errors on send"}
                     /\ ~th[g].message_sended
        /\ (Resolved(th[g]) # <<>> /\ th[g].pc \in {"finish", "set_error", "returned"})
              => Attempts(runtime, g) # <<>>
        /\ th[g].message_sended
              => /\ runtime[g].state # "error"
                 /\ th[g].pc = "returned" => runtime[g].state = "sended"

\* C19 witness: a job sended by an attempt that began after its deadline
C19_Witness ==
    \E g \in DOMAIN runtime :
        /\ runtime[g].state = "sended"
        /\ \E i \in 1..Len(runtime[g].events) :
              /\ EventAt(runtime, g, i, "try mx server for send")
              /\ runtime[g].events[i].ts - runtime[g].ts_added > runtime[g].message.send_timeout
        /\ Len(Attempts(runtime, g)) = 1

\* the call for job g is inside try_connect_server_and_send, or has just left
\* it, with the host not yet removed from the list
InAttempt(f) ==
    f.pc \in {"proxy", "connect", "ehlo", "starttls", "send", "quit", "after", "raised"}

\* C20: the MX loop makes at most as many attempts as the resolver returned
\* hosts, duplicates included: each attempt shortens the list by one; when
\* every host has failed transiently the list is empty, the event 'cannot send
\* message: all mx servers is down or timeout reached' is the last of the log,
\* state is error and False is returned.
C20_LoopIsBounded ==
    \A g \in DOMAIN runtime :
        LET mx    == Resolved(th[g])
            tried == Attempts(runtime, g)
            n     == Len(runtime[g].events)
        IN /\ Len(tried) <= Len(mx)
           /\ Len(th[g].mx_servers)
                = Len(mx) - Len(tried) + (IF InAttempt(th[g]) THEN 1 ELSE 0)
           /\ (th[g].pc = "returned" /\ mx # <<>>
                 /\ Len(FailedIn(runtime[g].events)) = Len(mx))
                 => /\ th[g].mx_servers = <<>>
                    /\ EventAt(runtime, g, n,
                               "cannot send message: all mx servers is down or timeout reached")
                    /\ runtime[g].state = "error"
                    /\ th[g].ret = "False"

\* C20 witness: the same host listed twice, both attempts failed, no deadline
C20_Witness ==
    \E g \in DOMAIN runtime :
        /\ Resolved(th[g]) = <<"mx1", "mx1">>
        /\ FailedIn(runtime[g].events) = <<"mx1", "mx1">>
        /\ \A i \in 1..Len(runtime[g].events) :
              ~EventAt(runtime, g, i, "message send timeout reached")
        /\ th[g].pc = "returned"
        /\ runtime[g].state = "error"

\* C21: when the resolver returns the empty list, api_send_message logs 'cannot
\* get mx servers for', builds no MIME message, makes no SMTP attempt, leaves
\* the state sending and returns False.
C21_NoMxLeavesSending ==
    \A g \in DOMAIN runtime :
        (th[g].doh # <<>> /\ Resolved(th[g]) = <<>>) =>
            LET n == Len(runtime[g].events) IN
            /\ th[g].pc = "returned" /\ th[g].ret = "False"
            /\ EventAt(runtime, g, n, "cannot get mx servers for")
            /\ runtime[g].events[n].source = "mailer"
            /\ th[g].message = <<>>
            /\ Attempts(runtime, g) = <<>> /\ th[g].conn = "none"
            /\ runtime[g].state = "sending"

\* C21 witness: the call for a domain without MX records has returned
C21_Witness ==
    \E g \in DOMAIN runtime :
        /\ th[g].doh = <<NxDomain>>
        /\ th[g].pc = "returned"
        /\ Len(runtime[g].events) = 2

\* C22: when try_connect_server_and_send has returned, the connection it
\* opened has been closed by quit() or close(): no connection is open outside
\* an attempt.
C22_ConnectionReleased ==
    \A g \in Guids :
        th[g].pc \in {"after", "loop", "finish", "set_error", "returned"}
            => th[g].conn # "open"

\* C23: in a job's log 'received' is the first event, 'mx servers for
\* target_address' precedes every 'try mx server for send', every smtp and
\* smtp-tls event of a host follows the 'try mx server for send' of that
\* host's attempt, and 'mail sended successfully' is the last event.
C23_EventsFollowDelivery ==
    \A g \in DOMAIN runtime :
        LET events == runtime[g].events
            n      == Len(events)
        IN \A i \in 1..n :
             /\ (i = 1) <=> (events[i].source = "api" /\ EventAt(runtime, g, i, "received"))
             /\ EventAt(runtime, g, i, "try mx server for send")
                   => \E j \in 1..(i - 1) : EventAt(runtime, g, j, "mx servers for target_address")
             /\ events[i].source \in {"smtp", "smtp-tls"}
                   => \E j \in 1..(i - 1) :
                         /\ EventAt(runtime, g, j, "try mx server for send")
                         /\ events[j].message[2] = events[i].message[2]
                         /\ \A k \in (j + 1)..(i - 1) :
                               ~EventAt(runtime, g, k, "try mx server for send")
             /\ EventAt(runtime, g, i, "mail sended successfully in") => i = n

\* C23 witness: behind a proxy, a log that ends with the success on the second
\* host after STARTTLS events of the first
C23_Witness ==
    \E g \in DOMAIN runtime :
        LET events == runtime[g].events IN
        /\ conf.proxy
        /\ events # <<>>
        /\ EventAt(runtime, g, Len(events), "mail sended successfully in")
        /\ events[Len(events)].message[2] = "mx2"
        /\ \E i \in 1..Len(events) :
              events[i].source = "smtp-tls" /\ events[i].message[2] = "mx1"
        /\ runtime[g].state = "sended"

\* C24: when an iteration of the snapshotter has written the file, the hash it
\* keeps as last hash is the hash of the registry content it wrote.
C24_HashIsOfWrittenContent ==
    (/\ snap.pc = "top" /\ main = "serving"
     /\ hist.tick # <<>> /\ hist.tick[1].wrote
     /\ file.author = "snapshotter")
        => snap.last_rt_hash = sha256(file.content[1])

\* C25: with runtime_file_path set the snapshotter loop never stops, whatever
\* the request and delivery threads do to the registry while it serializes.
C25_SnapshotterKeepsRunning ==
    conf.runtime_file_path => snap.pc # "crashed"

\* C26: a request handled by do_GET or do_POST is answered once: no more than
\* one response is written for it.
C26_OneResponsePerRequest == Len(response) <= 1

====
